---- MODULE Spec2Model ----
(***************************************************************************)
(* Model of the Autocomplete widget of src/assets/autocomplete.js.         *)
(*                                                                         *)
(* Strings are sequences of one-character strings.  An element of the DOM  *)
(* is a record: an items-wrapper element is identified by a number, an    *)
(* item element by the number of its wrapper and its position in it.  A   *)
(* new wrapper takes the least number no live reference holds, as an      *)
(* allocator reuses the address of garbage: identity is only ever         *)
(* compared between live references.  The innerText of an item element is *)
(* never written after its creation, so a reference to an item element    *)
(* carries it.                                                             *)
(***************************************************************************)
EXTENDS Integers, Sequences, FiniteSets, TLC

\* ------------------------------------------------------------------ bounds

\* Longest text the user types or the host passes to setInput.
MaxTextLen == 1
\* Longest list of suggestions passed to the constructor or to setItems.
MaxItems == 2
\* Longest array in an object passed to deepMerge.
MaxArrayLen == 2
Alphabet == {"A", "b"}

\* The suggestion strings the host draws its lists from.
ItemPool == { <<"a">>, <<"A", "b">> }

SeqsUpTo(S, n) == UNION { [1..k -> S] : k \in 0..n }

Texts == SeqsUpTo(Alphabet, MaxTextLen)

ItemLists == SeqsUpTo(ItemPool, MaxItems)

\* ------------------------------------------------------- strings (JS String)

\* String.prototype.toLowerCase on one character of the alphabet.
LowerChar(c) == IF c = "A" THEN "a" ELSE IF c = "B" THEN "b" ELSE c

toLowerCase(s) == [i \in 1..Len(s) |-> LowerChar(s[i])]

SetMin(S) == CHOOSE m \in S : \A x \in S : m <= x

\* String.prototype.indexOf: the first 0-based position at which needle
\* occurs in hay, or -1.
indexOf(hay, needle) ==
  LET hits == { k \in 0..(Len(hay) - Len(needle)) :
                  \A j \in 1..Len(needle) : hay[k + j] = needle[j] }
  IN  IF hits = {} THEN -1 ELSE SetMin(hits)

\* ------------------------------------------------------------ DOM elements

Null == [kind |-> "null", w |-> 0, i |-> 0, text |-> <<>>]
Undefined == [kind |-> "undefined", w |-> 0, i |-> 0, text |-> <<>>]
InputEl == [kind |-> "input", w |-> 0, i |-> 0, text |-> <<>>]
WrapperEl == [kind |-> "wrapper", w |-> 0, i |-> 0, text |-> <<>>]
BodyEl == [kind |-> "body", w |-> 0, i |-> 0, text |-> <<>>]
ItemsWrapperEl(w) == [kind |-> "itemsWrapper", w |-> w, i |-> 0, text |-> <<>>]
ItemEl(w, i, text) == [kind |-> "item", w |-> w, i |-> i, text |-> text]
\* The siblings of the input element in the host's document.
PrevEl == [kind |-> "sibling", w |-> 0, i |-> 1, text |-> <<>>]
NextEl == [kind |-> "sibling", w |-> 0, i |-> 2, text |-> <<>>]

\* The children of the input's parent before the widget is constructed.
Document == <<PrevEl, InputEl, NextEl>>

\* Node.replaceWith and Node.remove on a list of children.
Replace(children, old, new) ==
  [k \in 1..Len(children) |-> IF children[k] = old THEN new ELSE children[k]]

Remove(children, e) == SelectSeq(children, LAMBDA x : x # e)

\* JavaScript truthiness of an element reference.
Truthy(e) == e.kind \notin {"null", "undefined"}

\* -------------------------------------------------------------------- state

VARIABLES
  inputValue,       \* elements.input.value
  inputClasses,     \* class list of elements.input, among {"init", "input"}
  options,          \* this.options: [valueMatchItem, items]
  itemsWrapper,     \* elements.itemsWrapper: [w: its identity, visible: the
                    \* itemsWrapperVisible class]
  items,            \* elements.items, in DOM order: [text, visible, active],
                    \* the innerText and the itemVisible / itemActive classes
  activeItem,       \* elements.activeItem: an element reference
  hasItemsVisible,  \* temp.hasItemsVisible
  listeners,        \* listeners installed on elements.input
  cleanup,          \* the document click listeners of clickOutside:
                    \* [installed, elements: the listener whose remover is
                    \* cleanup.clickOutside and the elements it captured;
                    \* leaked: the elements captured by listeners whose
                    \* remover was overwritten before it was called]
  dom,              \* [parent: the children of the input's original parent,
                    \* wrapper: the children of elements.wrapper]
  merge,            \* a call of deepMerge: [objects, done, result]
  ev                \* the last operation: what it was and how it ended

vars == <<inputValue, inputClasses, options, itemsWrapper, items, activeItem,
          hasItemsVisible, listeners, cleanup, dom, merge, ev>>

\* The outcome of a handler not yet run.  threw: a TypeError ended it; hid
\* and hideText: hideItems ran, and the input text it found when it last
\* started; diag: console.error was called; calls: the callbacks of the host
\* it invoked, each with what the host could observe at that moment; fresh:
\* it replaced elements.itemsWrapper and elements.items by new objects.
NoOutcome ==
  [threw |-> FALSE, hid |-> FALSE, hideText |-> <<>>, diag |-> FALSE,
   calls |-> <<>>, fresh |-> FALSE]

\* The state of the widget as one record, so that a handler is a function
\* from record to record and handlers compose as the calls in the source do.
Cur ==
  [value |-> inputValue, inputClasses |-> inputClasses, options |-> options,
   wrapper |-> itemsWrapper, items |-> items, activeItem |-> activeItem,
   hasItemsVisible |-> hasItemsVisible, listeners |-> listeners,
   cleanup |-> cleanup, dom |-> dom, out |-> NoOutcome]

\* The item elements of the current collection, as element references.
ItemRef(s, i) == ItemEl(s.wrapper.w, i, s.items[i].text)

\* --------------------------------------------------------------- operations

isInit(s) == "init" \in s.inputClasses

\* isShownWithItems without the test of the panel class.
isShownWithItems_FlagOnly(s) == s.hasItemsVisible

isShownWithItems(s) == s.wrapper.visible /\ s.hasItemsVisible

showItems(s) == [s EXCEPT !.wrapper.visible = TRUE]

clearActiveItemStyles(s) ==
  [s EXCEPT !.items = [i \in 1..Len(s.items) |->
                         [s.items[i] EXCEPT !.active = FALSE]]]

\* hideItems comparing the input text with the items as they are written,
\* not with their lowercase form.
hideItems_CaseSensitive(s) ==
  LET s1 == [clearActiveItemStyles(s) EXCEPT
               !.wrapper.visible = FALSE,
               !.activeItem = Null,
               !.out.hid = TRUE,
               !.out.hideText = s.value]
      hasMatching == \E i \in 1..Len(s1.items) : s1.items[i].text = s1.value
  IN  IF s1.options.valueMatchItem /\ ~hasMatching
        THEN [s1 EXCEPT !.value = <<>>]
        ELSE s1

hideItems(s) ==
  LET s1 == [clearActiveItemStyles(s) EXCEPT
               !.wrapper.visible = FALSE,
               !.activeItem = Null,
               !.out.hid = TRUE,
               !.out.hideText = s.value]
      inputValueLowerCase == toLowerCase(s1.value)
      hasMatching == \E i \in 1..Len(s1.items) :
                       toLowerCase(s1.items[i].text) = inputValueLowerCase
  IN  IF s1.options.valueMatchItem /\ ~hasMatching
        THEN [s1 EXCEPT !.value = <<>>]
        ELSE s1

\* handleInput matching a prefix of the item instead of a substring.
handleInput_Prefix(s) ==
  LET inputValueLowerCase == toLowerCase(s.value)
      s1 == IF inputValueLowerCase = <<>> THEN hideItems(s) ELSE showItems(s)
      matches(i) ==
        indexOf(toLowerCase(s1.items[i].text), inputValueLowerCase) = 0
  IN  [s1 EXCEPT
         !.items = [i \in 1..Len(s1.items) |->
                      [s1.items[i] EXCEPT !.visible = matches(i)]],
         !.hasItemsVisible = \E i \in 1..Len(s1.items) : matches(i)]

\* handleInput without the reset of temp.hasItemsVisible before the loop.
handleInput_FlagKept(s) ==
  LET inputValueLowerCase == toLowerCase(s.value)
      s1 == IF inputValueLowerCase = <<>> THEN hideItems(s) ELSE showItems(s)
      matches(i) ==
        indexOf(toLowerCase(s1.items[i].text), inputValueLowerCase) > -1
  IN  [s1 EXCEPT
         !.items = [i \in 1..Len(s1.items) |->
                      [s1.items[i] EXCEPT !.visible = matches(i)]],
         !.hasItemsVisible = s1.hasItemsVisible
                               \/ \E i \in 1..Len(s1.items) : matches(i)]

\* handleInput showing the panel only when an item matches the text.
handleInput_ShowOnMatch(s) ==
  LET inputValueLowerCase == toLowerCase(s.value)
      matches(i) ==
        indexOf(toLowerCase(s.items[i].text), inputValueLowerCase) > -1
      any == \E i \in 1..Len(s.items) : matches(i)
      s1 == IF inputValueLowerCase = <<>> \/ ~any
              THEN hideItems(s) ELSE showItems(s)
  IN  [s1 EXCEPT
         !.items = [i \in 1..Len(s1.items) |->
                      [s1.items[i] EXCEPT !.visible = matches(i)]],
         !.hasItemsVisible = any]

handleInput(s) ==
  LET inputValueLowerCase == toLowerCase(s.value)
      s1 == IF inputValueLowerCase = <<>> THEN hideItems(s) ELSE showItems(s)
      matches(i) ==
        indexOf(toLowerCase(s1.items[i].text), inputValueLowerCase) > -1
  IN  [s1 EXCEPT
         !.items = [i \in 1..Len(s1.items) |->
                      [s1.items[i] EXCEPT !.visible = matches(i)]],
         !.hasItemsVisible = \E i \in 1..Len(s1.items) : matches(i)]

\* setInput without the filtering step.
setInput_NoFilter(s, value) == hideItems([s EXCEPT !.value = value])

setInput(s, value) == hideItems(handleInput([s EXCEPT !.value = value]))

\* [...itemsWrapper.querySelectorAll(`.${itemVisible}`)]: the item elements
\* of the current wrapper carrying the itemVisible class, in DOM order.
VisibleItems(s) ==
  LET idx == SelectSeq([i \in 1..Len(s.items) |-> i],
                       LAMBDA i : s.items[i].visible)
  IN  [k \in 1..Len(idx) |-> ItemRef(s, idx[k])]

\* items[n] of a JavaScript array, n 0-based: undefined out of range.
At(arr, n) == IF n >= 0 /\ n < Len(arr) THEN arr[n + 1] ELSE Undefined

\* Array.prototype.findIndex(item => item === e): 0-based, -1 when absent.
findIndex(arr, e) ==
  LET hits == { k \in 0..(Len(arr) - 1) : arr[k + 1] = e }
  IN  IF hits = {} THEN -1 ELSE SetMin(hits)

\* handleArrowKey without clearing the highlight of the items first.
handleArrowKey_NoClear(s, direction) ==
  LET vis == VisibleItems(s)
      firstItem == At(vis, 0)
      lastItem == At(vis, Len(vis) - 1)
      currentItemIndex == findIndex(vis, s.activeItem)
      next ==
        IF direction = "ArrowUp"
          THEN IF Truthy(s.activeItem) /\ s.activeItem # firstItem
                 THEN At(vis, currentItemIndex - 1)
                 ELSE lastItem
          ELSE IF Truthy(s.activeItem) /\ s.activeItem # lastItem
                 THEN At(vis, currentItemIndex + 1)
                 ELSE firstItem
      s2 == [s EXCEPT !.activeItem = next]
  IN  IF Truthy(next)
        THEN [s2 EXCEPT !.items[next.i].active = TRUE]
        ELSE [s2 EXCEPT !.out.threw = TRUE]

\* handleArrowKey with ArrowDown wrapping to the last item, as ArrowUp does.
handleArrowKey_WrapLast(s, direction) ==
  LET s1 == clearActiveItemStyles(s)
      vis == VisibleItems(s1)
      firstItem == At(vis, 0)
      lastItem == At(vis, Len(vis) - 1)
      currentItemIndex == findIndex(vis, s1.activeItem)
      next ==
        IF direction = "ArrowUp"
          THEN IF Truthy(s1.activeItem) /\ s1.activeItem # firstItem
                 THEN At(vis, currentItemIndex - 1)
                 ELSE lastItem
          ELSE IF Truthy(s1.activeItem) /\ s1.activeItem # lastItem
                 THEN At(vis, currentItemIndex + 1)
                 ELSE lastItem
      s2 == [s1 EXCEPT !.activeItem = next]
  IN  IF Truthy(next)
        THEN [s2 EXCEPT !.items[next.i].active = TRUE]
        ELSE [s2 EXCEPT !.out.threw = TRUE]

handleArrowKey(s, direction) ==
  LET s1 == clearActiveItemStyles(s)
      vis == VisibleItems(s1)
      firstItem == At(vis, 0)
      lastItem == At(vis, Len(vis) - 1)
      currentItemIndex == findIndex(vis, s1.activeItem)
      next ==
        IF direction = "ArrowUp"
          THEN IF Truthy(s1.activeItem) /\ s1.activeItem # firstItem
                 THEN At(vis, currentItemIndex - 1)
                 ELSE lastItem
          ELSE IF Truthy(s1.activeItem) /\ s1.activeItem # lastItem
                 THEN At(vis, currentItemIndex + 1)
                 ELSE firstItem
      s2 == [s1 EXCEPT !.activeItem = next]
  IN  IF Truthy(next)
        THEN [s2 EXCEPT !.items[next.i].active = TRUE]
        ELSE [s2 EXCEPT !.out.threw = TRUE]

handleKeydown(s, key) ==
  IF ~isShownWithItems(s) THEN s
  ELSE IF key \in {"ArrowUp", "ArrowDown"} THEN handleArrowKey(s, key)
  ELSE IF key = "Enter" /\ Truthy(s.activeItem)
    THEN setInput(s, s.activeItem.text)
  ELSE s

handleItemClick(s, currentTarget) == setInput(s, currentTarget.text)

\* The identity of a new items-wrapper element: one that no reference the
\* program still holds (elements.activeItem, the elements captured by the
\* document click listener) leads to.
NewWrapper(s) ==
  LET refs == s.cleanup.elements \cup UNION s.cleanup.leaked
                \cup {s.activeItem}
      held == { e.w : e \in { x \in refs :
                                x.kind \in {"item", "itemsWrapper"} } }
  IN  SetMin({ n \in 1..(Cardinality(held) + 1) : n \notin held })

\* generateItems collecting the items of the wrapper it replaces as well.
generateItems_KeepOld(s, list) ==
  [s EXCEPT
     !.dom.wrapper = Append(s.dom.wrapper, ItemsWrapperEl(NewWrapper(s))),
     !.wrapper = [w |-> NewWrapper(s), visible |-> FALSE],
     !.out.fresh = TRUE,
     !.items = s.items \o
               [i \in 1..Len(list) |->
                  [text |-> list[i], visible |-> TRUE, active |-> FALSE]]]

\* generateItems, after which elements.itemsWrapper is a new element, the
\* last child of elements.wrapper, and elements.items holds one element per
\* string, each carrying itemVisible.
generateItems(s, list) ==
  [s EXCEPT
     !.dom.wrapper = Append(s.dom.wrapper, ItemsWrapperEl(NewWrapper(s))),
     !.wrapper = [w |-> NewWrapper(s), visible |-> FALSE],
     !.out.fresh = TRUE,
     !.items = [i \in 1..Len(list) |->
                  [text |-> list[i], visible |-> TRUE, active |-> FALSE]]]

setItems(s, list) ==
  generateItems(
    [s EXCEPT !.options.items = list,
              !.dom.wrapper = Remove(s.dom.wrapper,
                                     ItemsWrapperEl(s.wrapper.w))],
    list)

\* target and its ancestors, innermost first (the parentNode walk).
Ancestors(target) ==
  IF target.kind = "item"
    THEN <<target, ItemsWrapperEl(target.w), WrapperEl, BodyEl>>
  ELSE IF target.kind \in {"itemsWrapper", "input"}
    THEN <<target, WrapperEl, BodyEl>>
  ELSE IF target.kind = "wrapper" THEN <<target, BodyEl>>
  ELSE <<target>>

\* The listener fn of clickOutside(elements, callback), callback = hideItems.
clickOutside(s, target) ==
  LET chain == Ancestors(target)
  IN  IF \E k \in 1..Len(chain) : chain[k] \in s.cleanup.elements
        THEN s
        ELSE hideItems(s)

\* A click event at the document: the listener fn that cleanup.clickOutside
\* removes, if it is installed, and every listener fn still installed whose
\* remover is lost.  hideItems is idempotent, so their order does not matter.
documentClick(s, target) ==
  LET chain == Ancestors(target)
      s1 == IF s.cleanup.installed THEN clickOutside(s, target) ELSE s
  IN  IF \E captured \in s.cleanup.leaked :
           \A k \in 1..Len(chain) : chain[k] \notin captured
        THEN hideItems(s1)
        ELSE s1

\* ------------------------------------------------ configuration (deepMerge)

\* A JavaScript value as one record shape: a scalar (a string, a boolean,
\* null, a function) named by s, an array of the values a, or a plain object
\* with the own properties o, a function from keys to values.
NoProps == [key \in {} |-> ""]
JsUndefined == [t |-> "undefined", s |-> "", a |-> <<>>, o |-> NoProps]
JsScalar(x) == [t |-> "scalar", s |-> x, a |-> <<>>, o |-> NoProps]
JsArray(elems) == [t |-> "array", s |-> "", a |-> elems, o |-> NoProps]
JsObject(props) == [t |-> "object", s |-> "", a |-> <<>>, o |-> props]

\* The property keys of the indices of an array.
IndexKeys == <<"0", "1", "2", "3", "4", "5", "6", "7">>

\* Object.keys(v) of an array or a plain object.
ownKeys(v) ==
  IF v.t = "array" THEN { IndexKeys[i] : i \in 1..Len(v.a) } ELSE DOMAIN v.o

\* v[key]
get(v, key) ==
  IF key \notin ownKeys(v) THEN JsUndefined
  ELSE IF v.t = "array"
    THEN v.a[CHOOSE i \in 1..Len(v.a) : IndexKeys[i] = key]
  ELSE v.o[key]

isArray(v) == v.t = "array"

\* obj && typeof obj === 'object': arrays are objects, null is falsy.
isObject(v) == v.t \in {"array", "object"}

\* What concat(...args) appends: the elements of an argument that is an
\* array, and any other argument itself.
RECURSIVE concatArgs(_)
concatArgs(args) ==
  IF args = <<>> THEN <<>>
  ELSE (IF isArray(Head(args)) THEN Head(args).a ELSE <<Head(args)>>)
         \o concatArgs(Tail(args))

\* objects.reduce from {}: every key of obj is assigned in prev; the
\* assignments of different keys are independent of each other.
RECURSIVE deepMerge(_)
deepMerge(objects) ==
  IF objects = <<>> THEN JsObject(NoProps)
  ELSE LET prev == deepMerge(SubSeq(objects, 1, Len(objects) - 1))
           obj == objects[Len(objects)]
           merged(key) ==
             LET pVal == get(prev, key)
                 oVal == get(obj, key)
             IN  IF isArray(pVal) /\ isArray(oVal)
                   THEN JsArray(pVal.a \o concatArgs(oVal.a))
                 ELSE IF isObject(pVal) /\ isObject(oVal)
                   THEN deepMerge(<<pVal, oVal>>)
                 ELSE oVal
       IN  JsObject([key \in (DOMAIN prev.o) \cup ownKeys(obj) |->
                       IF key \in ownKeys(obj) THEN merged(key)
                                               ELSE prev.o[key]])

\* No call of deepMerge under observation.
NoMerge == [objects |-> <<>>, done |-> FALSE, result |-> JsUndefined]

\* ---------------------------------------------------------------- lifecycle

\* addEventListener ignores a listener already installed (handleKeydown and
\* handleInput are bound once, in the constructor); clickOutside installs a
\* new fn at each call and its remover replaces the one in cleanup.
addEvents(s) ==
  [s EXCEPT
     !.listeners = s.listeners \cup {"keydown", "input"},
     !.cleanup = [installed |-> TRUE,
                  elements |-> {InputEl, ItemsWrapperEl(s.wrapper.w)},
                  leaked |-> IF s.cleanup.installed
                               THEN s.cleanup.leaked \cup {s.cleanup.elements}
                               ELSE s.cleanup.leaked]]

\* removeEvents leaving the keydown listener on the input.
removeEvents_KeepKeydown(s) ==
  [s EXCEPT !.listeners = s.listeners \ {"input"},
            !.cleanup.installed = FALSE, !.cleanup.elements = {}]

\* The fn that cleanup.clickOutside() removes is never called again: the
\* elements it captured are no live references any more.
removeEvents(s) ==
  [s EXCEPT !.listeners = s.listeners \ {"keydown", "input"},
            !.cleanup.installed = FALSE, !.cleanup.elements = {}]

\* A new wrapper element takes the place of the input among its siblings and
\* the input becomes its child; then the items.
generateHTML(s) ==
  generateItems(
    [s EXCEPT !.dom = [parent |-> Replace(s.dom.parent, InputEl, WrapperEl),
                       wrapper |-> <<InputEl>>],
              !.inputClasses = s.inputClasses \cup {"input"}],
    s.options.items)

\* destroyHTML putting the input back as the last child of its parent.
destroyHTML_AppendInput(s) ==
  [s EXCEPT !.dom = [parent |-> Append(Remove(s.dom.parent, WrapperEl),
                                       InputEl),
                     wrapper |-> Remove(s.dom.wrapper, InputEl)],
            !.inputClasses = s.inputClasses \ {"input"}]

\* wrapper.replaceWith(input): the input takes the place of the wrapper (a
\* wrapper without a parent is left alone) and leaves the wrapper's children.
destroyHTML(s) ==
  [s EXCEPT !.dom = [parent |-> Replace(s.dom.parent, WrapperEl, InputEl),
                     wrapper |-> Remove(s.dom.wrapper, InputEl)],
            !.inputClasses = s.inputClasses \ {"input"}]

\* What a callback of the host can observe of the widget when it is invoked.
Observed(s) ==
  [inputClasses |-> s.inputClasses, listeners |-> s.listeners,
   installed |-> s.cleanup.installed, dom |-> s.dom]

\* if (callback) callback(): options.onInit and options.onDestroy are null or
\* a function of the host.
invoke(s, fn) ==
  IF s.options[fn]
    THEN [s EXCEPT !.out.calls = Append(s.out.calls,
                                        [fn |-> fn, at |-> Observed(s)])]
    ELSE s

\* init without the guard of the init marker.
init_NoGuard(s) ==
  LET s1 == addEvents(generateHTML(s))
      s2 == IF s1.value # <<>> THEN handleInput(s1) ELSE s1
  IN  invoke([s2 EXCEPT !.inputClasses = s2.inputClasses \cup {"init"}],
             "onInit")

init(s) ==
  IF isInit(s) THEN [s EXCEPT !.out.diag = TRUE]
  ELSE LET s1 == addEvents(generateHTML(s))
           s2 == IF s1.value # <<>> THEN handleInput(s1) ELSE s1
       IN  invoke([s2 EXCEPT !.inputClasses = s2.inputClasses \cup {"init"}],
                  "onInit")

\* destroy invoking onDestroy before it removes the init marker.
destroy_CallbackFirst(s) ==
  IF ~isInit(s) THEN [s EXCEPT !.out.diag = TRUE]
  ELSE LET s1 == invoke(removeEvents(destroyHTML(s)), "onDestroy")
       IN  [s1 EXCEPT !.inputClasses = s1.inputClasses \ {"init"}]

destroy(s) ==
  IF ~isInit(s) THEN [s EXCEPT !.out.diag = TRUE]
  ELSE LET s1 == removeEvents(destroyHTML(s))
       IN  invoke([s1 EXCEPT !.inputClasses = s1.inputClasses \ {"init"}],
                  "onDestroy")

\* The fields the constructor sets before it calls init(); opts is
\* this.options, the options of the host merged over DEFAULT_OPTIONS.
Constructed(value, opts) ==
  [value |-> value, inputClasses |-> {}, options |-> opts,
   wrapper |-> [w |-> 0, visible |-> FALSE], items |-> <<>>,
   activeItem |-> Null, hasItemsVisible |-> FALSE, listeners |-> {},
   cleanup |-> [installed |-> FALSE, elements |-> {}, leaked |-> {}],
   dom |-> [parent |-> Document, wrapper |-> <<>>], out |-> NoOutcome]

\* ------------------------------------------------------------------ actions

Keys == {"ArrowUp", "ArrowDown", "Enter", "Escape"}

NoTarget == Null

\* The handlers' state r becomes the state of the widget.
Store(r) ==
  /\ inputValue' = r.value
  /\ inputClasses' = r.inputClasses
  /\ options' = r.options
  /\ itemsWrapper' = r.wrapper
  /\ items' = r.items
  /\ activeItem' = r.activeItem
  /\ hasItemsVisible' = r.hasItemsVisible
  /\ listeners' = r.listeners
  /\ cleanup' = r.cleanup
  /\ dom' = r.dom
  /\ merge' = merge

\* The record of an operation that ended in state r.  text: the text typed or
\* passed to setInput; inert: the operation left every field of the widget as
\* it was, the element objects the fields refer to included (an operation
\* that replaced the elements by new ones is never inert, whatever identity
\* the new ones have here).
Event(op, text, key, target, r) ==
  [op |-> op, text |-> text, key |-> key, target |-> target,
   inert |-> (~r.out.fresh /\ [r EXCEPT !.out = NoOutcome] = Cur),
   threw |-> r.out.threw, hid |-> r.out.hid, hideText |-> r.out.hideText,
   diag |-> r.out.diag, calls |-> r.out.calls]

\* new Autocomplete(input, opts), the input holding the text value.
Construct(value, opts) ==
  LET r == init(Constructed(value, opts))
  IN  /\ inputValue = r.value
      /\ inputClasses = r.inputClasses
      /\ options = r.options
      /\ itemsWrapper = r.wrapper
      /\ items = r.items
      /\ activeItem = r.activeItem
      /\ hasItemsVisible = r.hasItemsVisible
      /\ listeners = r.listeners
      /\ cleanup = r.cleanup
      /\ dom = r.dom
      /\ merge = NoMerge
      /\ ev = [op |-> "construct", text |-> value, key |-> "",
               target |-> NoTarget, inert |-> FALSE, threw |-> r.out.threw,
               hid |-> r.out.hid, hideText |-> r.out.hideText,
               diag |-> r.out.diag, calls |-> r.out.calls]

\* A widget constructed without callbacks (onInit, onDestroy: null).
Init ==
  \E list \in ItemLists, value \in Texts, valueMatchItem \in BOOLEAN :
    Construct(value, [valueMatchItem |-> valueMatchItem, items |-> list,
                      onInit |-> FALSE, onDestroy |-> FALSE])

\* The user edits the text of the input; the input listener, if installed,
\* runs handleInput.
InputEvent(text) ==
  LET s == [Cur EXCEPT !.value = text]
  IN  IF "input" \in listeners THEN handleInput(s) ELSE s

Input(text) ==
  LET r == InputEvent(text)
  IN  Store(r) /\ ev' = Event("input", text, "", NoTarget, r)

\* A keydown on the input: the keydown listener, if installed.
KeydownEvent(key) ==
  IF "keydown" \in listeners THEN handleKeydown(Cur, key) ELSE Cur

Keydown(key) ==
  LET r == KeydownEvent(key)
  IN  Store(r) /\ ev' = Event("keydown", <<>>, key, NoTarget, r)

\* The elements of the document a click can land on: the wrapper and what
\* it holds only while the wrapper is in the document.
ClickTargets ==
  {InputEl, BodyEl}
    \cup IF \E k \in 1..Len(dom.parent) : dom.parent[k] = WrapperEl
           THEN {WrapperEl, ItemsWrapperEl(itemsWrapper.w)}
                  \cup { ItemRef(Cur, i) : i \in 1..Len(items) }
           ELSE {}

\* A click in the document: the listener of the item it lands on, if any,
\* then the document listeners of clickOutside.
ClickEvent(target) ==
  documentClick(IF target.kind = "item" THEN handleItemClick(Cur, target)
                                         ELSE Cur,
                target)

Click(target) ==
  /\ target \in ClickTargets
  /\ LET r == ClickEvent(target)
     IN  Store(r) /\ ev' = Event("click", <<>>, "", target, r)

SetInput(value) ==
  LET r == setInput(Cur, value)
  IN  Store(r) /\ ev' = Event("setInput", value, "", NoTarget, r)

SetItems(list) ==
  LET r == setItems(Cur, list)
  IN  Store(r) /\ ev' = Event("setItems", <<>>, "", NoTarget, r)

Next ==
  \/ \E text \in Texts : Input(text)
  \/ \E key \in Keys : Keydown(key)
  \/ \E target \in ClickTargets : Click(target)
  \/ \E value \in Texts : SetInput(value)
  \/ \E list \in ItemLists : SetItems(list)

Spec == Init /\ [][Next]_vars

\* ------------------------------------------------- actions of the lifecycle

\* The lists the host passes in the lifecycle specification: those that
\* hold no suggestion string twice.
LifeLists ==
  { list \in ItemLists :
      \A i, j \in 1..Len(list) : list[i] = list[j] => i = j }

\* A widget constructed with both callbacks.
InitLife ==
  \E list \in LifeLists, value \in Texts, valueMatchItem \in BOOLEAN :
    Construct(value, [valueMatchItem |-> valueMatchItem, items |-> list,
                      onInit |-> TRUE, onDestroy |-> TRUE])

\* The host calls destroy().
Destroy ==
  LET r == destroy(Cur)
  IN  Store(r) /\ ev' = Event("destroy", <<>>, "", NoTarget, r)

\* The host calls init().
InitCall ==
  LET r == init(Cur)
  IN  Store(r) /\ ev' = Event("init", <<>>, "", NoTarget, r)

NextLife ==
  \/ \E text \in Texts : Input(text)
  \/ \E key \in Keys : Keydown(key)
  \/ \E target \in ClickTargets : Click(target)
  \/ \E value \in Texts : SetInput(value)
  \/ \E list \in LifeLists : SetItems(list)
  \/ Destroy
  \/ InitCall

SpecLife == InitLife /\ [][NextLife]_vars

\* ---------------------------------------------------- actions of deepMerge

\* The values the objects passed to deepMerge are built from: strings,
\* arrays of strings and of arrays, and objects one level deep.
MergeScalars == { JsScalar("x"), JsScalar("y") }

MergeElements == { JsScalar("x"), JsArray(<<JsScalar("y")>>) }

MergeArrays == { JsArray(elems) : elems \in SeqsUpTo(MergeElements, MaxArrayLen) }

MergeNested ==
  { JsObject(NoProps) }
    \cup { JsObject([key \in {"n"} |-> v]) : v \in MergeScalars \cup MergeArrays }

MergeValues == MergeScalars \cup MergeArrays \cup MergeNested

\* Objects with the keys "items" and "flag", each present or not.
MergeObjects ==
  { JsObject(NoProps) }
    \cup { JsObject([key \in {"items"} |-> v]) : v \in MergeValues }
    \cup { JsObject([key \in {"flag"} |-> f]) : f \in MergeScalars }
    \cup { JsObject([key \in {"items", "flag"} |->
                       IF key = "items" THEN vf[1] ELSE vf[2]]) :
             vf \in MergeValues \X MergeScalars }

DEFAULT_OPTIONS ==
  [valueMatchItem |-> FALSE, items |-> <<>>, onInit |-> FALSE,
   onDestroy |-> FALSE]

\* deepMerge is about to be called with defaults and overrides; no widget
\* has been initialized.
InitMerge ==
  \E defaults \in MergeObjects, overrides \in MergeObjects :
    LET r == Constructed(<<>>, DEFAULT_OPTIONS)
    IN  /\ merge = [objects |-> <<defaults, overrides>>, done |-> FALSE,
                    result |-> JsUndefined]
        /\ inputValue = r.value
        /\ inputClasses = r.inputClasses
        /\ options = r.options
        /\ itemsWrapper = r.wrapper
        /\ items = r.items
        /\ activeItem = r.activeItem
        /\ hasItemsVisible = r.hasItemsVisible
        /\ listeners = r.listeners
        /\ cleanup = r.cleanup
        /\ dom = r.dom
        /\ ev = [op |-> "none", text |-> <<>>, key |-> "",
                 target |-> NoTarget, inert |-> FALSE, threw |-> FALSE,
                 hid |-> FALSE, hideText |-> <<>>, diag |-> FALSE,
                 calls |-> <<>>]

\* The call deepMerge(defaults, overrides).
DeepMerge ==
  /\ ~merge.done
  /\ merge' = [merge EXCEPT !.done = TRUE,
                            !.result = deepMerge(merge.objects)]
  /\ UNCHANGED <<inputValue, inputClasses, options, itemsWrapper, items,
                 activeItem, hasItemsVisible, listeners, cleanup, dom, ev>>

NextMerge == DeepMerge

SpecMerge == InitMerge /\ [][NextMerge]_vars

\* =================================================================== claims

\* needle occurs in hay as a substring.
Contains(hay, needle) ==
  \E k \in 0..(Len(hay) - Len(needle)) :
    SubSeq(hay, k + 1, k + Len(needle)) = needle

\* The positions of the substring filter of text in a list of suggestions.
Filter(list, text) ==
  { i \in 1..Len(list) : Contains(toLowerCase(list[i]), toLowerCase(text)) }

VisibleSet(s) == { i \in 1..Len(s.items) : s.items[i].visible }

ActiveSet(s) == { i \in 1..Len(s.items) : s.items[i].active }

\* The panel is shown and at least one item carries the itemVisible class.
PanelWithItems(s) == s.wrapper.visible /\ VisibleSet(s) # {}

\* The step is a keydown of key, delivered to handleKeydown.
KeydownStep(key) ==
  "keydown" \in listeners /\ ev'.op = "keydown" /\ ev'.key = key

\* The last operation was a keydown of key that left the widget as it was.
InertKeydown(key) ==
  "keydown" \in listeners /\ ev.op = "keydown" /\ ev.key = key /\ ev.inert

\* Exactly one item of the collection is highlighted, it is visible, and it
\* is the active item.
OneActiveVisible(r) ==
  \E i \in 1..Len(r.items) :
    /\ ActiveSet(r) = {i}
    /\ r.items[i].visible
    /\ r.activeItem = ItemRef(r, i)

\* ------------------------------------------------------------------------ C1
\* C1: immediately after an input event, the items carrying the itemVisible
\* class are exactly the items of the list whose lowercase text contains the
\* lowercase input text, and hasItemsVisible is true iff there is one.
C1_FilterExact ==
  (ev.op = "input" /\ "input" \in listeners) =>
    /\ Len(items) = Len(options.items)
    /\ VisibleSet(Cur) = Filter(options.items, inputValue)
    /\ hasItemsVisible <=> (VisibleSet(Cur) # {})

C1_Witness ==
  /\ ev.op = "input"
  /\ inputValue # <<>>
  /\ VisibleSet(Cur) # {}
  /\ VisibleSet(Cur) # 1..Len(items)

\* ------------------------------------------------------------------------ C2
\* The active item after ArrowDown as the claim states it: the successor of
\* the previous active item in the visible-items sequence if there was an
\* active item and it is not the last visible item, else the first one.
ArrowDownStated(s, r) ==
  LET vis == VisibleItems(s)
  IN  /\ OneActiveVisible(r)
      /\ IF Truthy(s.activeItem) /\ s.activeItem # vis[Len(vis)]
           THEN \E k \in 1..(Len(vis) - 1) :
                  vis[k] = s.activeItem /\ r.activeItem = vis[k + 1]
           ELSE r.activeItem = vis[1]

\* The same with the successor taken only when the previous active item is
\* in the visible-items sequence, and the first visible item otherwise.
ArrowDownAmended(s, r) ==
  LET vis == VisibleItems(s)
      at == { k \in 1..(Len(vis) - 1) : vis[k] = s.activeItem }
  IN  /\ OneActiveVisible(r)
      /\ IF at # {}
           THEN \A k \in at : r.activeItem = vis[k + 1]
           ELSE r.activeItem = vis[1]

\* C2 as stated: with the panel shown and an item visible, ArrowDown leaves
\* one active visible item, the successor of the previous active item unless
\* there was none or it was the last visible item, and then the first.
C2_ArrowDownStated ==
  /\ [][(KeydownStep("ArrowDown") /\ PanelWithItems(Cur))
          => ArrowDownStated(Cur, Cur')]_vars
  /\ []((InertKeydown("ArrowDown") /\ PanelWithItems(Cur))
          => ArrowDownStated(Cur, Cur))

\* C2 amended: with the panel shown and an item visible, ArrowDown leaves one
\* active visible item: the successor of the previous active item if that
\* item is in the visible-items sequence and not its last, and otherwise (no
\* active item, active item last, or active item not visible any more) the
\* first visible item.
C2_ArrowDown ==
  /\ [][(KeydownStep("ArrowDown") /\ PanelWithItems(Cur))
          => ArrowDownAmended(Cur, Cur')]_vars
  /\ []((InertKeydown("ArrowDown") /\ PanelWithItems(Cur))
          => ArrowDownAmended(Cur, Cur))

\* ArrowDown has moved the highlight to the second visible item.
C2_Witness ==
  /\ ev.op = "keydown" /\ ev.key = "ArrowDown"
  /\ itemsWrapper.visible
  /\ Len(VisibleItems(Cur)) >= 2
  /\ activeItem = VisibleItems(Cur)[2]
  /\ ActiveSet(Cur) = {activeItem.i}

\* ------------------------------------------------------------------------ C3
ArrowUpStated(s, r) ==
  LET vis == VisibleItems(s)
  IN  /\ OneActiveVisible(r)
      /\ IF Truthy(s.activeItem) /\ s.activeItem # vis[1]
           THEN \E k \in 2..Len(vis) :
                  vis[k] = s.activeItem /\ r.activeItem = vis[k - 1]
           ELSE r.activeItem = vis[Len(vis)]

\* C3: with the panel shown and an item visible, ArrowUp leaves one active
\* visible item, the predecessor of the previous active item, or the last
\* visible item if there was none or it was the first; never no active item.
C3_ArrowUpStated ==
  /\ [][(KeydownStep("ArrowUp") /\ PanelWithItems(Cur))
          => ArrowUpStated(Cur, Cur')]_vars
  /\ []((InertKeydown("ArrowUp") /\ PanelWithItems(Cur))
          => ArrowUpStated(Cur, Cur))

\* ------------------------------------------------------------------------ C4
EnterStated(s, r) ==
  IF Truthy(s.activeItem)
    THEN /\ r.value = s.activeItem.text
         /\ ~r.wrapper.visible
         /\ ~Truthy(r.activeItem)
         /\ ActiveSet(r) = {}
    ELSE /\ r.value = s.value
         /\ r.wrapper = s.wrapper
         /\ Len(r.items) = Len(s.items)
         /\ VisibleSet(r) = VisibleSet(s)

\* C4: with the panel shown and an item visible, Enter with an active item
\* sets the input text to the text of that item and hides the panel (no
\* panel class, no active item, no highlighted item); Enter without an active
\* item changes neither the input text, the panel nor the items' visibility.
C4_EnterStated ==
  /\ [][(KeydownStep("Enter") /\ PanelWithItems(Cur))
          => EnterStated(Cur, Cur')]_vars
  /\ []((InertKeydown("Enter") /\ PanelWithItems(Cur))
          => EnterStated(Cur, Cur))

\* ------------------------------------------------------------------------ C5
\* C5: a keydown of ArrowUp, ArrowDown or Enter in a state where the panel is
\* not shown or no item is visible leaves the active item, the highlight, the
\* input text, the panel and every item's visibility unchanged.
C5_KeyboardGating ==
  [][((\E key \in {"ArrowUp", "ArrowDown", "Enter"} : KeydownStep(key))
        /\ ~PanelWithItems(Cur))
      => UNCHANGED <<activeItem, items, inputValue, itemsWrapper>>]_vars

\* ArrowDown was pressed with the panel hidden although items carry the
\* itemVisible class and the flag says so, and nothing moved.
C5_Witness ==
  /\ ev.op = "keydown" /\ ev.key = "ArrowDown" /\ ev.inert
  /\ ~itemsWrapper.visible
  /\ hasItemsVisible /\ VisibleSet(Cur) # {}
  /\ ~Truthy(activeItem)

\* ------------------------------------------------------------------------ C6
\* text equals, case-insensitively, a string of list.
Matches(list, text) ==
  \E i \in 1..Len(list) : toLowerCase(list[i]) = toLowerCase(text)

\* The displayed texts of the current item collection, in DOM order.
ItemTexts(s) == [i \in 1..Len(s.items) |-> s.items[i].text]

\* The last operation is one that the claim says hides the panel.
HidingOperation ==
  \/ ev.op = "input" /\ "input" \in listeners /\ ev.text = <<>>
  \/ ev.op = "setInput"
  \/ ev.op = "click" /\ ev.target.kind \in {"item", "wrapper", "body"}
  \/ ev.op = "keydown" /\ ev.key = "Enter" /\ ~ev.inert

\* C6: every hide of the panel (from an empty input, an outside click,
\* setInput, an item click or Enter) leaves the input text it found if
\* valueMatchItem is disabled or the text equals, case-insensitively, the text
\* of some item of the whole current collection; otherwise it empties it.
C6_HideValueMatch ==
  /\ HidingOperation => ev.hid
  /\ ev.hid =>
       inputValue =
         IF options.valueMatchItem /\ ~Matches(ItemTexts(Cur), ev.hideText)
           THEN <<>>
           ELSE ev.hideText

\* An outside click emptied an input whose text matched an item as a
\* substring only.
C6_Witness ==
  /\ options.valueMatchItem
  /\ ev.op = "click" /\ ev.target = BodyEl /\ ev.hid
  /\ ev.hideText # <<>>
  /\ inputValue = <<>>
  /\ VisibleSet(Cur) # {}

\* ------------------------------------------------------------------------ C7
\* The step is a click in the document, delivered to the document listener.
ClickStep == cleanup.installed /\ ev'.op = "click"

\* target, or an ancestor of it, is the input or the current items container.
Inside(target, s) ==
  \/ target = InputEl
  \/ target = ItemsWrapperEl(s.wrapper.w)
  \/ target.kind = "item" /\ target.w = s.wrapper.w

\* The widget after the listener of the clicked element itself.
AfterTarget(target) ==
  IF target.kind = "item" THEN handleItemClick(Cur, target) ELSE Cur

\* C7: the document listener ignores a click on the input, on the current
\* items container or inside them (panel, active item and input text stay as
\* the clicked element's own listener left them), and any other click hides
\* the panel.
C7_OutsideClickStated ==
  /\ [][ClickStep =>
          IF Inside(ev'.target, Cur)
            THEN /\ itemsWrapper' = AfterTarget(ev'.target).wrapper
                 /\ activeItem' = AfterTarget(ev'.target).activeItem
                 /\ inputValue' = AfterTarget(ev'.target).value
            ELSE ~itemsWrapper'.visible]_vars
  /\ []((cleanup.installed /\ ev.op = "click" /\ ev.inert)
          => (Inside(ev.target, Cur) \/ ~itemsWrapper.visible))

\* ------------------------------------------------------------------------ C8
\* C8: the item collection is one element per string of the list last given
\* to setItems (or to the constructor), in order, new after setItems; every
\* filtering step marks visible exactly the matching elements of that list,
\* and the match of hideItems is against that list.
C8_ItemsReplaced ==
  /\ ItemTexts(Cur) = options.items
  /\ ev.op = "setItems" =>
       /\ VisibleSet(Cur) = 1..Len(options.items)
       /\ ActiveSet(Cur) = {}
       /\ activeItem.kind = "item" => activeItem.w # itemsWrapper.w
  /\ ev.op = "input" /\ "input" \in listeners =>
       VisibleSet(Cur) = Filter(options.items, ev.text)
  /\ ev.op = "setInput" => VisibleSet(Cur) = Filter(options.items, ev.text)
  /\ (ev.hid /\ options.valueMatchItem /\ inputValue # <<>>) =>
       Matches(options.items, inputValue)

\* A filtering step after setItems has replaced the list: the wrapper is not
\* the one of the construction, and the filter selects some of the new items.
C8_Witness ==
  /\ ev.op = "input"
  /\ itemsWrapper.w # 1
  /\ VisibleSet(Cur) # {}
  /\ VisibleSet(Cur) # 1..Len(items)

\* ------------------------------------------------------------------------ C9
AfterSetInput(t) ==
  /\ ~itemsWrapper.visible
  /\ activeItem = Null
  /\ ActiveSet(Cur) = {}
  /\ VisibleSet(Cur) = Filter(options.items, t)
  /\ inputValue = IF options.valueMatchItem /\ ~Matches(options.items, t)
                    THEN <<>>
                    ELSE t

\* C9: after setInput(t), called by the host or by the click on an item, the
\* panel is hidden, there is no active item, each item's visibility is the
\* substring filter of t, and the input text is t, or empty if valueMatchItem
\* is enabled and t matches no item case-insensitively.
C9_SetInput ==
  /\ (ev.op = "setInput" /\ "init" \in inputClasses) => AfterSetInput(ev.text)
  /\ (ev.op = "click" /\ ev.target.kind = "item")
       => AfterSetInput(ev.target.text)

\* setInput of a text that is a substring of an item but equals none, with
\* valueMatchItem enabled: the item is visible, the input text is emptied.
C9_Witness ==
  /\ ev.op = "setInput"
  /\ options.valueMatchItem
  /\ ev.text # <<>>
  /\ inputValue = <<>>
  /\ VisibleSet(Cur) # {}
  /\ ~itemsWrapper.visible

\* ----------------------------------------------------------------------- C10
\* C10: after every input event the panel class is present iff the input
\* text is not empty, whatever the items are.
C10_PanelIffText ==
  (ev.op = "input" /\ "input" \in listeners) =>
    /\ inputValue = ev.text
    /\ itemsWrapper.visible <=> (inputValue # <<>>)

\* The panel is shown after typing into a widget with no item that matches.
C10_Witness ==
  /\ ev.op = "input"
  /\ inputValue # <<>>
  /\ VisibleSet(Cur) = {}
  /\ itemsWrapper.visible

\* ================================================= claims of the lifecycle

\* e is among children.
Has(children, e) == \E k \in 1..Len(children) : children[k] = e

\* e is in the document: a child of the input's parent, or in the wrapper
\* while the wrapper is one.
InDocument(s, e) ==
  \/ Has(s.dom.parent, e)
  \/ /\ Has(s.dom.parent, WrapperEl)
     /\ \/ Has(s.dom.wrapper, e)
        \/ e.kind = "item" /\ Has(s.dom.wrapper, ItemsWrapperEl(e.w))

\* The input listeners and the document click listener are installed, once.
ListenersInstalled(s) ==
  /\ s.listeners = {"keydown", "input"}
  /\ s.cleanup.installed
  /\ s.cleanup.leaked = {}

\* No listener of the instance is installed.
ListenersRemoved(s) ==
  /\ s.listeners = {}
  /\ ~s.cleanup.installed
  /\ s.cleanup.leaked = {}

\* ----------------------------------------------------------------------- C11
\* C11: after destroy() on an initialized widget the input carries neither
\* the init class nor the input class, the children of its parent are those
\* of before the construction, in their order, and neither the wrapper nor
\* the items container nor an item is in the document.
C11_DestroyRestores ==
  (ev.op = "destroy" /\ ~ev.diag) =>
    /\ inputClasses = {}
    /\ dom.parent = Document
    /\ ~InDocument(Cur, WrapperEl)
    /\ ~InDocument(Cur, ItemsWrapperEl(itemsWrapper.w))
    /\ \A i \in 1..Len(items) : ~InDocument(Cur, ItemRef(Cur, i))

\* destroy() after setItems has replaced the items container and a keydown
\* has made an item active.
C11_Witness ==
  /\ ev.op = "destroy" /\ ~ev.diag
  /\ itemsWrapper.w # 1
  /\ Len(items) = 2
  /\ ActiveSet(Cur) # {}
  /\ dom.wrapper = <<ItemsWrapperEl(itemsWrapper.w)>>

\* ----------------------------------------------------------------------- C12
\* C12: the keydown, input and document click listeners are installed, each
\* once, exactly while the input carries the init marker; and a keydown, an
\* input event or a click on a destroyed instance changes neither the panel,
\* the items' visibility, the active item nor the input text (beyond the
\* text the input event itself carries).
C12_ListenerLifecycle ==
  /\ [](IF isInit(Cur) THEN ListenersInstalled(Cur) ELSE ListenersRemoved(Cur))
  /\ [][(~isInit(Cur) /\ ev'.op \in {"keydown", "input", "click"}) =>
          /\ UNCHANGED <<itemsWrapper, items, activeItem, hasItemsVisible>>
          /\ inputValue' = IF ev'.op = "input" THEN ev'.text ELSE inputValue
       ]_vars

\* A keydown on a destroyed instance whose panel had been left shown with a
\* visible item: the keydown listener would have acted on it.
C12_Witness ==
  /\ ev.op = "keydown"
  /\ ~isInit(Cur)
  /\ isShownWithItems(Cur)
  /\ VisibleSet(Cur) # {}

\* ----------------------------------------------------------------------- C13
\* C13: init() on an instance that carries the init marker and destroy() on
\* one that does not emit a diagnostic, invoke no callback and leave the DOM,
\* the classes, the listeners, the items, the active item and the input
\* text as they were.
C13_AbortedLifecycle ==
  /\ [][((ev'.op = "init" /\ isInit(Cur))
           \/ (ev'.op = "destroy" /\ ~isInit(Cur))) =>
          /\ ev'.diag
          /\ ev'.calls = <<>>
          /\ UNCHANGED <<inputValue, inputClasses, options, itemsWrapper,
                         items, activeItem, hasItemsVisible, listeners,
                         cleanup, dom>>
       ]_vars
  /\ []((ev.op \in {"init", "destroy"} /\ ev.inert) =>
         (ev.diag /\ ev.calls = <<>>))

\* init() on an initialized instance whose panel is shown with an active
\* item.
C13_Witness ==
  /\ ev.op = "init" /\ ev.diag /\ ev.inert
  /\ isInit(Cur)
  /\ itemsWrapper.visible
  /\ ActiveSet(Cur) # {}

\* ----------------------------------------------------------------------- C14
\* C14: a successful initialization (the construction, init() after a
\* destroy) invokes onInit once, when the input is wrapped, the listeners
\* are installed and the init marker is set, and does nothing after it; a
\* successful destroy() invokes onDestroy once, when the marker is removed,
\* and does nothing after it; an aborted init() or destroy() invokes
\* neither.
C14_Callbacks ==
  /\ (ev.op \in {"construct", "init"} /\ ~ev.diag /\ options.onInit) =>
       /\ ev.calls = <<[fn |-> "onInit", at |-> Observed(Cur)]>>
       /\ "init" \in ev.calls[1].at.inputClasses
       /\ ev.calls[1].at.listeners = {"keydown", "input"}
       /\ ev.calls[1].at.installed
       /\ Has(ev.calls[1].at.dom.wrapper, InputEl)
  /\ (ev.op = "destroy" /\ ~ev.diag /\ options.onDestroy) =>
       /\ ev.calls = <<[fn |-> "onDestroy", at |-> Observed(Cur)]>>
       /\ "init" \notin ev.calls[1].at.inputClasses
  /\ ev.diag => ev.calls = <<>>
  /\ ev.op \notin {"construct", "init", "destroy"} => ev.calls = <<>>

\* onInit has been invoked by an init() that followed a destroy().
C14_Witness ==
  /\ ev.op = "init" /\ ~ev.diag
  /\ Len(ev.calls) = 1
  /\ ev.calls[1].fn = "onInit"
  /\ itemsWrapper.visible

\* ----------------------------------------------------------------------- C15
\* The structure the claim describes for deepMerge(d, o): a key of one
\* object only keeps its value; two arrays are concatenated, d's first; two
\* plain objects are merged in the same way; otherwise the value of o.
RECURSIVE MergeStated(_, _)
MergeStated(d, o) ==
  JsObject(
    [key \in (DOMAIN d.o) \cup (DOMAIN o.o) |->
       IF key \notin DOMAIN o.o THEN d.o[key]
       ELSE IF key \notin DOMAIN d.o THEN o.o[key]
       ELSE IF isArray(d.o[key]) /\ isArray(o.o[key])
         THEN JsArray(d.o[key].a \o o.o[key].a)
       ELSE IF d.o[key].t = "object" /\ o.o[key].t = "object"
         THEN MergeStated(d.o[key], o.o[key])
       ELSE o.o[key]])

\* A key of both d and o holds an array in one and a plain object in the
\* other, at any depth: the claim's "sequence" and "nested structure" meet.
RECURSIVE Clash(_, _)
Clash(d, o) ==
  \E key \in (DOMAIN d.o) \cap (DOMAIN o.o) :
    \/ {d.o[key].t, o.o[key].t} = {"array", "object"}
    \/ /\ d.o[key].t = "object" /\ o.o[key].t = "object"
       /\ Clash(d.o[key], o.o[key])

\* C15: deepMerge(defaults, overrides) returns the structure in which a key
\* of defaults that overrides lacks keeps its value, a key with two
\* sequences holds their concatenation in input order, a key with two
\* nested structures holds their recursive merge, and any other shared key
\* holds the value of overrides.  Stated for the inputs in which no shared
\* key pairs a sequence with a nested structure.
C15_MergeStated ==
  (merge.done /\ ~Clash(merge.objects[1], merge.objects[2])) =>
    merge.result = MergeStated(merge.objects[1], merge.objects[2])

\* ----------------------------------------------------------------------- C16
\* C16: on an initialized widget no input event, keydown, click, setInput
\* or setItems ends in an error, and none leaves the active-item reference
\* at no element after the highlight was cleared.
C16_NoPartialFailure ==
  isInit(Cur) => (~ev.threw /\ activeItem # Undefined)

\* ----------------------------------------------------------------------- C17
\* C17: at most one item element of the current collection carries the
\* itemActive class, and one that does is the element elements.activeItem
\* refers to.
C17_OneActive ==
  /\ Cardinality(ActiveSet(Cur)) <= 1
  /\ \A i \in ActiveSet(Cur) : activeItem = ItemRef(Cur, i)

\* A keydown has put the highlight on the second of two visible items of an
\* items container that replaced the one of the construction.
C17_Witness ==
  /\ ev.op = "keydown"
  /\ itemsWrapper.w # 1
  /\ VisibleSet(Cur) = {1, 2}
  /\ ActiveSet(Cur) = {2}
  /\ dom.parent # Document

\* ----------------------------------------------------------------------- C18
\* C18: elements.activeItem, when set, is an element of the current item
\* collection, and it is not set while the panel is hidden.
C18_ActiveCurrent ==
  /\ Truthy(activeItem) =>
       \E i \in 1..Len(items) : activeItem = ItemRef(Cur, i)
  /\ ~itemsWrapper.visible => ~Truthy(activeItem)

\* ----------------------------------------------------------------------- C19
\* The flag and the itemVisible classes agree with each other and with the
\* substring filter of the input text.
FlagAndFilter(s) ==
  /\ s.hasItemsVisible <=> (VisibleSet(s) # {})
  /\ VisibleSet(s) = Filter(s.options.items, s.value)
  /\ isShownWithItems(s) <=> (s.wrapper.visible /\ VisibleSet(s) # {})

\* C19 as stated: in every reachable state in which the panel class is
\* present, hasItemsVisible says whether an item carries itemVisible and the
\* visible items are the substring filter of the current input text.
C19_FlagStated == itemsWrapper.visible => FlagAndFilter(Cur)

\* C19 amended: the same in every reachable state of an initialized
\* instance (the input carries the init marker) in which the panel class is
\* present.
C19_FlagWhileInit ==
  (isInit(Cur) /\ itemsWrapper.visible) => FlagAndFilter(Cur)

\* An instance initialized again after a destroy shows its panel with some
\* but not all items visible.
C19_Witness ==
  /\ ev.op = "init" /\ ~ev.diag
  /\ itemsWrapper.visible
  /\ VisibleSet(Cur) # {}
  /\ VisibleSet(Cur) # 1..Len(items)

\* ----------------------------------------------------------------------- C20
\* C20: after a destroy() and an init() that follows it, the input carries
\* the init and input classes and is the child of a wrapper that stands in
\* its place, there is one item element per string of options.items (all of
\* them visible, or those the text of the input selects), the listeners are
\* installed once, and there is no active item.
C20_ReinitStated ==
  (ev.op = "init" /\ ~ev.diag) =>
    /\ inputClasses = {"init", "input"}
    /\ dom.parent = Replace(Document, InputEl, WrapperEl)
    /\ dom.wrapper = <<InputEl, ItemsWrapperEl(itemsWrapper.w)>>
    /\ ItemTexts(Cur) = options.items
    /\ VisibleSet(Cur) = Filter(options.items, inputValue)
    /\ ListenersInstalled(Cur)
    /\ ~Truthy(activeItem)

====
